---- MODULE Spec2Model ----
(***************************************************************************)
(* A model of the ray tracer of gsingh93/ray-trace: the surface            *)
(* intersection tests (src/surface.rs), the nearest-hit query and the      *)
(* recursive renderer (src/lib.rs).                                        *)
(*                                                                         *)
(* f32 values are modelled as fixed-point integers: the integer n stands   *)
(* for the real number n / One.  Every arithmetic operation rounds its     *)
(* result to the nearest representable value, as the f32 operations do.    *)
(***************************************************************************)
EXTENDS Integers, Sequences, FiniteSets, TLC

\* ------------------------------------------------------------------------
\* Bounds of the model
\* ------------------------------------------------------------------------
MaxDim == 2

MaxDepthBound == 2

GridMax == 1

\* ------------------------------------------------------------------------
\* f32 arithmetic (fixed point)
\* ------------------------------------------------------------------------
One == 1000

\* f32 and Vec3 are passed by value: F applied to the values of the
\* operands, each operand evaluated once
Val1(F(_), a) == CHOOSE r \in {F(p) : p \in {a}} : TRUE

Val2(F(_, _), a, b) == CHOOSE r \in {F(p, q) : p \in {a}, q \in {b}} : TRUE

Abs(n) == IF n < 0 THEN -n ELSE n

Sgn(n) == IF n < 0 THEN -1 ELSE 1

\* n / d rounded to the nearest integer, halves away from zero
RDiv(n, d) ==
    Val2(LAMBDA nv, dv :
             Sgn(nv) * Sgn(dv) * ((Abs(nv) + (Abs(dv) \div 2)) \div Abs(dv)),
         n, d)

FMul(a, b) == RDiv(a * b, One)

FDiv(a, b) == RDiv(a * One, b)

\* the truncated remainder of Rust's `%` on floats (sign of the dividend)
FRem(a, b) ==
    Val2(LAMBDA av, bv : av - Abs(bv) * Sgn(av) * (Abs(av) \div Abs(bv)),
         a, b)

RECURSIVE ISqrtIter(_, _)
\* Newton's iteration from the guess g
ISqrtIter(n, g) ==
    Val1(LAMBDA h : IF h >= g THEN g ELSE ISqrtIter(n, h),
         (g + (n \div g)) \div 2)

\* floor of the square root of the integer n >= 0
ISqrt(n) == Val1(LAMBDA nv : IF nv <= 0 THEN 0 ELSE ISqrtIter(nv, nv), n)

\* f32::sqrt, rounded to nearest
FSqrt(a) ==
    Val2(LAMBDA n, r : IF n - r * r > r THEN r + 1 ELSE r,
         a * One, ISqrt(a * One))

RECURSIVE FPow(_, _)
\* f32::powf for a whole exponent k >= 0
FPow(a, k) ==
    Val2(LAMBDA av, kv : IF kv = 0 THEN One ELSE FMul(av, FPow(av, kv - 1)),
         a, k)

FMax(a, b) == Val2(LAMBDA av, bv : IF av >= bv THEN av ELSE bv, a, b)

\* nalgebra::clamp
Clamp(v, lo, hi) ==
    Val1(LAMBDA w : IF w < lo THEN lo ELSE IF w > hi THEN hi ELSE w, v)

\* ------------------------------------------------------------------------
\* Vec3
\* ------------------------------------------------------------------------
Vec3(a, b, c) == [x |-> a, y |-> b, z |-> c]

\* a vector of whole numbers
V(a, b, c) == Vec3(a * One, b * One, c * One)

Zero == Vec3(0, 0, 0)

VAdd(a, b) ==
    Val2(LAMBDA p, q : Vec3(p.x + q.x, p.y + q.y, p.z + q.z), a, b)

VSub(a, b) ==
    Val2(LAMBDA p, q : Vec3(p.x - q.x, p.y - q.y, p.z - q.z), a, b)

VScale(a, k) ==
    Val2(LAMBDA p, q : Vec3(FMul(p.x, q), FMul(p.y, q), FMul(p.z, q)), a, k)

VDivS(a, k) ==
    Val2(LAMBDA p, q : Vec3(FDiv(p.x, q), FDiv(p.y, q), FDiv(p.z, q)), a, k)

ComponentMul(a, b) ==
    Val2(LAMBDA p, q : Vec3(FMul(p.x, q.x), FMul(p.y, q.y), FMul(p.z, q.z)),
         a, b)

Dot(a, b) ==
    Val2(LAMBDA p, q : FMul(p.x, q.x) + FMul(p.y, q.y) + FMul(p.z, q.z),
         a, b)

Cross(a, b) ==
    Val2(LAMBDA p, q :
             Vec3(FMul(p.y, q.z) - FMul(p.z, q.y),
                  FMul(p.z, q.x) - FMul(p.x, q.z),
                  FMul(p.x, q.y) - FMul(p.y, q.x)),
         a, b)

SqNorm(a) == Val1(LAMBDA p : Dot(p, p), a)

Norm(a) == FSqrt(SqNorm(a))

Normalize(a) == Val1(LAMBDA p : VDivS(p, Norm(p)), a)

\* ------------------------------------------------------------------------
\* Ray and Intersection (src/ray.rs)
\* ------------------------------------------------------------------------
RayNew(origin, dir) == [origin |-> origin, dir |-> Normalize(dir)]

IntersectionNew(pos, normal, dist, u, v) ==
    [some |-> TRUE, pos |-> pos, normal |-> normal, dist |-> dist,
     u |-> u, v |-> v]

\* Option::None of an Option<Intersection>
NoHit ==
    [some |-> FALSE, pos |-> Zero, normal |-> Zero, dist |-> 0,
     u |-> 0, v |-> 0]

\* ------------------------------------------------------------------------
\* Elementary functions used by the surface parameterisation
\* ------------------------------------------------------------------------
Pi == 3142

\* f32::atan, by the rational approximation a / (1 + 0.28 a^2)
FAtan(a) ==
    Val1(LAMBDA t :
             IF Abs(t) <= One
             THEN FDiv(t, One + FMul(280, FMul(t, t)))
             ELSE Sgn(t) * (Pi \div 2) - FDiv(t, FMul(t, t) + 280),
         a)

\* f32::atan2(y, x)
FAtan2(y, x) ==
    Val2(LAMBDA b, a :
             IF a = 0 /\ b = 0 THEN 0
             ELSE IF Abs(a) >= Abs(b)
                  THEN LET r == FAtan(FDiv(b, a))
                       IN  IF a > 0 THEN r
                           ELSE IF b >= 0 THEN r + Pi ELSE r - Pi
                  ELSE LET r == FAtan(FDiv(a, b))
                       IN  IF b > 0 THEN (Pi \div 2) - r
                           ELSE -(Pi \div 2) - r,
         y, x)

\* ------------------------------------------------------------------------
\* Texture (src/texture.rs)
\* ------------------------------------------------------------------------
NoTexture == [kind |-> "None", dim |-> 0]

CheckerboardTexture(dim) == [kind |-> "Checkerboard", dim |-> dim]

\* CheckerboardTexture::color that folds s and t as if they were positive
CheckerboardColorNoFold(t, u, v) ==
    LET half == RDiv(t.dim, 2)
        s == FRem(u, t.dim) - half
        tt == FRem(v, t.dim) - half
    IN  IF (s > 0 /\ tt < 0) \/ (s < 0 /\ tt > 0)
        THEN V(0, 0, 0)
        ELSE V(255, 255, 255)

\* CheckerboardTexture::color
CheckerboardColor(t, u, v) ==
    LET half == RDiv(t.dim, 2)
        s0 == FRem(u, t.dim)
        t0 == FRem(v, t.dim)
        s == IF s0 > 0 THEN s0 - half ELSE s0 + half
        tt == IF t0 > 0 THEN t0 - half ELSE t0 + half
    IN  IF (s > 0 /\ tt < 0) \/ (s < 0 /\ tt > 0)
        THEN V(0, 0, 0)
        ELSE V(255, 255, 255)

\* ------------------------------------------------------------------------
\* Material
\* ------------------------------------------------------------------------
\* NormalMap::new; `some` tells Some(map) from None
NormalMapNew(seed_val, octaves, wavelength, persistence, lacunarity) ==
    [some |-> TRUE, seed_val |-> seed_val, octaves |-> octaves,
     wavelength |-> wavelength, persistence |-> persistence,
     lacunarity |-> lacunarity]

NoNormalMap ==
    [some |-> FALSE, seed_val |-> 0, octaves |-> 0, wavelength |-> 0,
     persistence |-> 0, lacunarity |-> 0]

\* Material::new of a material without a normal map
MaterialNew(color, diffuse_coeff, specular_coeff, glossiness, reflectivity, texture) ==
    [color |-> color, diffuse_coeff |-> diffuse_coeff,
     specular_coeff |-> specular_coeff, glossiness |-> glossiness,
     reflectivity |-> reflectivity, texture |-> texture,
     normal_map |-> NoNormalMap]

\* Material::new with Some(map) as normal_map
WithNormalMap(m, map) == [m EXCEPT !.normal_map = map]

HasNormalMap(m) == m.normal_map.some

\* Fbm::get of the noise crate at hit_pos: a value of [-1, 1] that is a
\* function of the seed and of the position
FbmNoise(map, hit_pos) ==
    ((map.seed_val * 389 + 3 * hit_pos.x + 5 * hit_pos.y + 7 * hit_pos.z)
        % (2 * One + 1)) - One

\* NormalMap::map
NormalMapMap(map, normal, hit_pos) ==
    LET val0 == RDiv(FbmNoise(map, hit_pos) + One, 2)
        val == IF val0 < 0 THEN 0 ELSE val0
    IN  Normalize(VAdd(normal, Vec3(val, val, val)))

\* Material::apply_normal_map
ApplyNormalMap(m, normal, hit_pos) ==
    IF m.normal_map.some
    THEN NormalMapMap(m.normal_map, normal, hit_pos)
    ELSE normal

Reflectivity(m) == m.reflectivity

RawColor(m) == m.color

\* the texture factor of the diffuse term
TextureFactor(m, hit) ==
    IF m.texture.kind = "Checkerboard"
    THEN VDivS(CheckerboardColor(m.texture, hit.u, hit.v), 255 * One)
    ELSE V(1, 1, 1)

\* max(0, dot(half_vec, normal)).powf(glossiness); a zero half vector
\* normalizes to NaN, and f32::max(0, NaN) is 0
SpecularFactor(m, shadow_ray, camera_ray, hit) ==
    Val1(LAMBDA h :
             IF Norm(h) = 0
             THEN FPow(0, m.glossiness)
             ELSE FPow(FMax(0, Dot(Normalize(h), hit.normal)), m.glossiness),
         VDivS(VSub(shadow_ray.dir, camera_ray.dir), 2 * One))

MaterialColor(m, shadow_ray, camera_ray, hit) ==
    Val1(LAMBDA sr :
             LET f == FMax(0, Dot(hit.normal, sr.dir))
                 diffuse_color ==
                     ComponentMul(VScale(VScale(m.color, f), m.diffuse_coeff),
                                  TextureFactor(m, hit))
                 f2 == SpecularFactor(m, sr, camera_ray, hit)
                 specular_color == VScale(VScale(V(255, 255, 255), f2),
                                          m.specular_coeff)
             IN  VAdd(diffuse_color, specular_color),
         shadow_ray)

\* ------------------------------------------------------------------------
\* Surfaces (src/surface.rs)
\* ------------------------------------------------------------------------
SphereNew(pos, radius, material) ==
    [kind |-> "Sphere", pos |-> pos, radius |-> radius, point |-> Zero,
     normal |-> Zero, material |-> material]

PlaneNew(point, normal, material) ==
    [kind |-> "Plane", pos |-> Zero, radius |-> 0, point |-> point,
     normal |-> normal, material |-> material]

SphereB(s, ray) == 2 * Dot(ray.dir, VSub(ray.origin, s.pos))

SphereC(s, ray) ==
    SqNorm(VSub(ray.origin, s.pos)) - FMul(s.radius, s.radius)

SphereDiscriminant(s, ray) ==
    FMul(SphereB(s, ray), SphereB(s, ray)) - 4 * SphereC(s, ray)

\* the larger root d1
SphereD1(s, ray) ==
    RDiv(-SphereB(s, ray) + FSqrt(SphereDiscriminant(s, ray)), 2)

\* the smaller root d2
SphereD2(s, ray) ==
    RDiv(-SphereB(s, ray) - FSqrt(SphereDiscriminant(s, ray)), 2)

\* the Intersection built for the ray parameter d
SphereHitAt(s, ray, d) ==
    Val2(LAMBDA pos, center_vec :
             IntersectionNew(
                 pos,
                 Normalize(VSub(pos, s.pos)),
                 d,
                 (One \div 2)
                     + FDiv(FAtan2(center_vec.z, center_vec.x), 2 * Pi),
                 (One \div 2) - FDiv(FAtan(center_vec.y), Pi)),
         VAdd(ray.origin, VScale(ray.dir, d)),
         Normalize(VSub(s.pos, VAdd(ray.origin, VScale(ray.dir, d)))))

\* SphereIntersect preferring the far root
SphereIntersectFarRoot(s, ray) ==
    IF SphereDiscriminant(s, ray) >= 0
    THEN IF SphereD1(s, ray) > 0
         THEN SphereHitAt(s, ray, SphereD1(s, ray))
         ELSE IF SphereD2(s, ray) > 0
              THEN SphereHitAt(s, ray, SphereD2(s, ray))
              ELSE NoHit
    ELSE NoHit

\* SphereIntersect accepting the ray parameter 0
SphereIntersectGrazing(s, ray) ==
    IF SphereDiscriminant(s, ray) >= 0
    THEN IF SphereD2(s, ray) > 0
         THEN SphereHitAt(s, ray, SphereD2(s, ray))
         ELSE IF SphereD1(s, ray) >= 0
              THEN SphereHitAt(s, ray, SphereD1(s, ray))
              ELSE NoHit
    ELSE NoHit

SphereIntersect(s, ray) ==
    IF SphereDiscriminant(s, ray) >= 0
    THEN IF SphereD2(s, ray) > 0
         THEN SphereHitAt(s, ray, SphereD2(s, ray))
         ELSE IF SphereD1(s, ray) > 0
              THEN SphereHitAt(s, ray, SphereD1(s, ray))
              ELSE NoHit
    ELSE NoHit

PlaneDenom(p, ray) == Dot(ray.dir, p.normal)

\* the ray parameter d of the plane, for a denominator that is not 0
PlaneD(p, ray) ==
    FDiv(Dot(p.normal, VSub(p.point, ray.origin)), PlaneDenom(p, ray))

PlaneHitAt(p, ray, d) ==
    LET n == p.normal
        u_axis == Vec3(n.y, n.z, -n.x)
        v_axis == Cross(u_axis, n)
    IN  Val1(LAMBDA pos :
                 IntersectionNew(pos, p.normal, d, Dot(pos, u_axis),
                                 Dot(pos, v_axis)),
             VAdd(ray.origin, VScale(ray.dir, d)))

\* PlaneIntersect accepting the ray parameter 0
PlaneIntersectGrazing(p, ray) ==
    IF PlaneDenom(p, ray) = 0
    THEN NoHit
    ELSE IF PlaneD(p, ray) >= 0
         THEN PlaneHitAt(p, ray, PlaneD(p, ray))
         ELSE NoHit

PlaneIntersect(p, ray) ==
    IF PlaneDenom(p, ray) = 0
    THEN NoHit
    ELSE IF PlaneD(p, ray) > 0
         THEN PlaneHitAt(p, ray, PlaneD(p, ray))
         ELSE NoHit

\* dynamic dispatch of Surface::intersect
SurfaceIntersect(obj, ray) ==
    IF obj.kind = "Sphere" THEN SphereIntersect(obj, ray)
    ELSE PlaneIntersect(obj, ray)

\* ------------------------------------------------------------------------
\* PointLight (src/light.rs), Camera and Scene (src/lib.rs)
\* ------------------------------------------------------------------------
PointLightNew(pos, color, intensity) ==
    [pos |-> pos, color |-> color, intensity |-> intensity]

CameraNew(pos, dir, up) ==
    LET right == Normalize(Cross(up, dir))
        up2 == Normalize(Cross(right, dir))
    IN  [pos |-> pos, dir |-> Normalize(dir), up |-> up2, right |-> right]

CameraFromLookat(pos, lookat, up) == CameraNew(pos, VSub(lookat, pos), up)

GetRay(cam, px, py, w, h) ==
    LET aspect_ratio == FDiv(w * One, h * One)
        norm_x0 == FDiv(px * One, w * One) - (One \div 2)
        norm_y == FDiv(py * One, h * One) - (One \div 2)
        norm_x == FMul(norm_x0, aspect_ratio)
        dir == VAdd(VAdd(VScale(cam.right, norm_x), VScale(cam.up, norm_y)),
                    cam.dir)
    IN  RayNew(cam.pos, dir)

SceneNew(objects, lights, ambient_coeff, ambient_color, camera) ==
    [objects |-> objects, lights |-> lights,
     ambient_coeff |-> ambient_coeff, ambient_color |-> ambient_color,
     camera |-> camera]

\* Option::None of Scene::intersect
NoResult == [obj |-> 0, hit |-> NoHit]

\* IntersectStep replacing the result on equal distances
IntersectStepLast(objects, ray, result, i) ==
    Val2(LAMBDA hit, old :
             IF hit.some
             THEN IF ~old.hit.some
                  THEN [obj |-> i, hit |-> hit]
                  ELSE IF hit.dist <= old.hit.dist
                       THEN [obj |-> i, hit |-> hit]
                       ELSE old
             ELSE old,
         SurfaceIntersect(objects[i], ray), result)

\* one iteration of the loop of Scene::intersect over surface i
IntersectStep(objects, ray, result, i) ==
    Val2(LAMBDA hit, old :
             IF hit.some
             THEN IF ~old.hit.some
                  THEN [obj |-> i, hit |-> hit]
                  ELSE IF hit.dist < old.hit.dist
                       THEN [obj |-> i, hit |-> hit]
                       ELSE old
             ELSE old,
         SurfaceIntersect(objects[i], ray), result)

RECURSIVE IntersectLoop(_, _, _, _)
IntersectLoop(objects, ray, result, i) ==
    IF i > Len(objects)
    THEN result
    ELSE Val1(LAMBDA r : IntersectLoop(objects, ray, r, i + 1),
              IntersectStep(objects, ray, result, i))

\* Scene::intersect: the index of the nearest surface and its hit
SceneIntersect(sc, ray) ==
    Val1(LAMBDA r : IntersectLoop(sc.objects, r, NoResult, 1), ray)

\* ------------------------------------------------------------------------
\* The shading steps of trace_ray (src/lib.rs)
\* ------------------------------------------------------------------------
\* f32::EPSILON.sqrt(), the offset of the shading point along the normal
SqrtEpsilon == 1

\* AmbientTerm without the ambient coefficient
AmbientTermNoCoeff(sc, m) ==
    ComponentMul(RawColor(m), VDivS(sc.ambient_color, 255 * One))

\* the ambient term of a material
AmbientTerm(sc, m) ==
    ComponentMul(RawColor(m),
                 VScale(VDivS(sc.ambient_color, 255 * One), sc.ambient_coeff))

\* the shading point, offset along the normal
OffsetPos(hit) == VAdd(hit.pos, VScale(hit.normal, SqrtEpsilon))

ShadowRay(light, hit) == RayNew(OffsetPos(hit), VSub(light.pos, OffsetPos(hit)))

\* the distance from the offset shading point to the light
LightDist(light, hit) == Norm(VSub(light.pos, OffsetPos(hit)))

\* LightVisible where any occluder blocks the light
LightVisibleAnyOccluder(shadow_res, dist) == ~shadow_res.hit.some

\* whether the term of the light is added, given the result of
\* scene.intersect(shadow_ray)
LightVisible(shadow_res, dist) ==
    IF shadow_res.hit.some THEN shadow_res.hit.dist > dist ELSE TRUE

\* the diffuse/specular term of one light
LightTerm(light, m, ray, hit) ==
    ComponentMul(MaterialColor(m, ShadowRay(light, hit), ray, hit),
                 VScale(VDivS(light.color, 255 * One), light.intensity))

\* the body of the loop over the lights, for one light
ShadeLight(sc, light, m, ray, hit, color) ==
    IF LightVisible(SceneIntersect(sc, ShadowRay(light, hit)),
                    LightDist(light, hit))
    THEN VAdd(color, LightTerm(light, m, ray, hit))
    ELSE color

ReflectedRay(ray, hit) ==
    RayNew(OffsetPos(hit),
           VSub(ray.dir, VScale(VScale(hit.normal, 2 * One),
                                Dot(ray.dir, hit.normal))))

\* AtDepthLimit off by one
AtDepthLimitStrict(depth, maxd) == depth > maxd

\* `depth >= max_depth`: the early return at the depth limit
AtDepthLimit(depth, maxd) == depth >= maxd

\* `reflectivity > 0.`
IsReflective(m) == Reflectivity(m) > 0

\* the largest value of the type u16 of depth and max_depth
U16Max == 65535

\* ChildDepth without the increment
ChildDepthSame(depth) == depth

\* the depth argument of the recursive call
ChildDepth(depth) == (depth + 1) % (U16Max + 1)

RECURSIVE LightsLoop(_, _, _, _, _, _)
\* the loop over the lights from light i on
LightsLoop(sc, m, ray, hit, color, i) ==
    IF i > Len(sc.lights)
    THEN color
    ELSE LightsLoop(sc, m, ray, hit,
                    ShadeLight(sc, sc.lights[i], m, ray, hit, color), i + 1)

RECURSIVE TraceRayFn(_, _, _, _)
\* trace_ray as a function of its arguments
TraceRayFn(sc, ray, depth, maxd) ==
    LET res == SceneIntersect(sc, ray)
    IN  IF ~res.hit.some
        THEN Zero
        ELSE LET m == sc.objects[res.obj].material
                 color == LightsLoop(sc, m, ray, res.hit, AmbientTerm(sc, m), 1)
             IN  IF AtDepthLimit(depth, maxd)
                 THEN color
                 ELSE IF IsReflective(m)
                      THEN VAdd(color,
                                VScale(TraceRayFn(sc, ReflectedRay(ray, res.hit),
                                                  ChildDepth(depth), maxd),
                                       Reflectivity(m)))
                      ELSE color

\* `c as u8` that keeps the low byte of the integer part, without the clamp
ToU8Wrapping(c) == (c \div One) % 256

\* clamp(c, 0., 255.) as u8
ToU8(c) == Clamp(c, 0, 255 * One) \div One

\* Rgb::from_channels of the clamped channels
ToRgb(color) == <<ToU8(color.x), ToU8(color.y), ToU8(color.z)>>

\* ------------------------------------------------------------------------
\* The scenes rendered by the model (the input of ray_trace)
\* ------------------------------------------------------------------------
White == V(255, 255, 255)

Blue == V(0, 0, 255)

Red == V(255, 0, 0)

MatteMaterial(c) == MaterialNew(c, One, 0, 1, 0, NoTexture)

MirrorMaterial(c) == MaterialNew(c, One \div 2, One \div 2, 2, One \div 2, NoTexture)

CheckerMaterial(c) == MaterialNew(c, One, 0, 1, 0, CheckerboardTexture(One))

\* one matte sphere in front of the camera and one light
SceneSphere ==
    SceneNew(<<SphereNew(V(0, 0, 0), One, MatteMaterial(Blue))>>,
             <<PointLightNew(V(4, 4, 0), White, 2 * One)>>,
             One \div 10, White,
             CameraFromLookat(V(0, 0, -4), V(0, 0, 0), V(0, 1, 0)))

\* two mirrors facing each other, the camera between them
SceneMirrors ==
    SceneNew(<<PlaneNew(V(0, 0, 3), V(0, 0, -1), MirrorMaterial(White)),
               PlaneNew(V(0, 0, -5), V(0, 0, 1), MirrorMaterial(Red))>>,
             <<PointLightNew(V(0, 2, 0), White, One)>>,
             One \div 10, White,
             CameraFromLookat(V(0, 0, 0), V(0, 0, 1), V(0, 1, 0)))

\* no light: a mirror in front of the camera, a matte sphere behind it
SceneDark ==
    SceneNew(<<PlaneNew(V(0, 0, 3), V(0, 0, -1), MirrorMaterial(White)),
               SphereNew(V(0, 0, -3), One, MatteMaterial(Red))>>,
             <<>>,
             One \div 2, White,
             CameraFromLookat(V(0, 0, 0), V(0, 0, 1), V(0, 1, 0)))

\* a floor seen from above, below a ceiling: a light on the ceiling, a
\* light below the ceiling and a light behind a sphere
SceneShadows ==
    SceneNew(<<PlaneNew(V(0, -1, 0), V(0, 1, 0), CheckerMaterial(White)),
               PlaneNew(V(0, 5, 0), V(0, -1, 0), MatteMaterial(Blue)),
               SphereNew(V(1, 0, 0), One \div 2, MatteMaterial(Red))>>,
             <<PointLightNew(V(0, 5, 0), White, One),
               PointLightNew(V(0, 2, 0), White, One),
               PointLightNew(V(2, 1, 0), White, 2 * One)>>,
             One \div 5, White,
             CameraFromLookat(V(0, 3, 0), V(0, 0, 0), V(0, 0, 1)))

\* the camera inside a reflecting sphere
SceneInside ==
    SceneNew(<<SphereNew(V(0, 0, 0), 3 * One, MirrorMaterial(Blue))>>,
             <<PointLightNew(V(0, 1, 0), White, One)>>,
             One \div 10, White,
             CameraFromLookat(V(0, 0, 1), V(0, 0, 2), V(0, 1, 0)))

\* two coincident spheres, the first matte and the second reflecting
SceneTwins ==
    SceneNew(<<SphereNew(V(0, 0, 0), One, MatteMaterial(Red)),
               SphereNew(V(0, 0, 0), One, MirrorMaterial(Blue)),
               PlaneNew(V(0, 0, 4), V(0, 0, -1), MirrorMaterial(White))>>,
             <<PointLightNew(V(0, 3, -3), White, One)>>,
             One \div 10, White,
             CameraFromLookat(V(0, 0, -4), V(0, 0, 0), V(0, 1, 0)))

Scenes ==
    {SceneSphere, SceneMirrors, SceneDark, SceneShadows, SceneInside,
     SceneTwins}

\* ------------------------------------------------------------------------
\* ray_trace and trace_ray as a state machine
\* ------------------------------------------------------------------------
VARIABLES
    scene,      \* the &Scene argument of ray_trace
    width,      \* the width argument
    height,     \* the height argument
    max_depth,  \* the max_depth argument
    x,          \* the outer loop variable of ray_trace
    y,          \* the inner loop variable of ray_trace
    im,         \* the raster, a function of the pixel <<x, y>>
    stack,      \* the call stack of trace_ray, the innermost call last
    pc,         \* "loop", "trace" or "done"
    q_objects,  \* the surfaces of an intersection query
    q_ray,      \* the ray of the query
    q_i,        \* the index of the next surface of the query
    q_hits,     \* the result of Surface::intersect per surface
    q_result,   \* the result of Scene::intersect so far
    q_pc,       \* "idle", "loop" or "done"
    l_materials, \* the texture entry of each material of the scene file
    l_i,        \* the index of the next material to decode
    l_textures, \* the textures constructed so far
    l_pc,       \* "idle", "decode", "render" or "panicked"
    t_in,       \* the texture and the arguments of a colour lookup
    t_out,      \* the colours the lookups returned
    t_pc,       \* "idle", "call" or "done"
    d_max,      \* max_depth of a primary ray's chain of reflections
    d_chain,    \* what the rays of the chain meet: mirrors, then the last
    d_active,   \* the trace_ray invocations that have not returned yet
    d_depth,    \* the depth argument of the innermost trace_ray call
    d_calls,    \* the trace_ray invocations made for the primary ray
    d_overflow, \* whether a depth + 1 exceeded the u16 range
    d_pc        \* "idle", "enter", "ret" or "done"

vars ==
    <<scene, width, height, max_depth, x, y, im, stack, pc,
      q_objects, q_ray, q_i, q_hits, q_result, q_pc,
      l_materials, l_i, l_textures, l_pc, t_in, t_out, t_pc,
      d_max, d_chain, d_depth, d_calls, d_active, d_overflow,
      d_pc>>

renderVars == <<scene, width, height, max_depth, x, y, im, stack, pc>>

queryVars == <<q_objects, q_ray, q_i, q_hits, q_result, q_pc>>

loadVars == <<l_materials, l_i, l_textures, l_pc>>

texVars == <<t_in, t_out, t_pc>>

depthVars ==
    <<d_max, d_chain, d_depth, d_calls, d_active, d_overflow, d_pc>>

auxVars == <<loadVars, texVars, depthVars>>

Pixels(w, h) == (0 .. w - 1) \X (0 .. h - 1)

\* RgbImage::new: a raster of black pixels
NewImage(w, h) == [p \in Pixels(w, h) |-> <<0, 0, 0>>]

\* the pixel visited before <<px, py>>
PrevPixel(px, py, h) == IF py > 0 THEN <<px, py - 1>> ELSE <<px - 1, h - 1>>

\* NewFrame with a `color` that is not reset between the pixels
NewFrameStale(ray, depth) ==
    [ray |-> ray, depth |-> depth, pc |-> "enter",
     color |-> IF x > 0 \/ y > 0
               THEN LET c == im[PrevPixel(x, y, height)]
                    IN  V(c[1], c[2], c[3])
               ELSE Zero,
     obj |-> 0, hit |-> NoHit, li |-> 1, nadd |-> <<>>, ncalls |-> 0]

\* the activation record of trace_ray on entry; `color` is the local of
\* line 111, nadd and ncalls count the additions of each light's term and
\* the recursive calls made
NewFrame(ray, depth) ==
    [ray |-> ray, depth |-> depth, pc |-> "enter", color |-> Zero,
     obj |-> 0, hit |-> NoHit, li |-> 1, nadd |-> <<>>, ncalls |-> 0]

Top == stack[Len(stack)]

SetTop(f) == [stack EXCEPT ![Len(stack)] = f]

QueryIdle ==
    /\ q_objects = <<>>
    /\ q_ray = RayNew(Zero, V(0, 0, 1))
    /\ q_i = 1
    /\ q_hits = <<>>
    /\ q_result = NoResult
    /\ q_pc = "idle"

LoadIdle ==
    /\ l_materials = <<>>
    /\ l_i = 1
    /\ l_textures = <<>>
    /\ l_pc = "idle"

TexIdle ==
    /\ t_in = <<>>
    /\ t_out = <<>>
    /\ t_pc = "idle"

DepthIdle ==
    /\ d_max = 0
    /\ d_chain = <<>>
    /\ d_active = 0
    /\ d_depth = 0
    /\ d_calls = 0
    /\ d_overflow = FALSE
    /\ d_pc = "idle"

Init ==
    /\ scene \in Scenes
    /\ width \in 1 .. MaxDim
    /\ height \in 1 .. MaxDim
    /\ max_depth \in 0 .. MaxDepthBound
    /\ x = 0
    /\ y = 0
    /\ im = NewImage(width, height)
    /\ stack = <<>>
    /\ pc = "loop"
    /\ QueryIdle
    /\ LoadIdle
    /\ TexIdle
    /\ DepthIdle

\* the body of the pixel loop up to the call trace_ray(&scene, &ray, 0, ..)
StartPixel ==
    /\ pc = "loop"
    /\ x < width
    /\ stack' = <<NewFrame(GetRay(scene.camera, x, y, width, height), 0)>>
    /\ pc' = "trace"
    /\ UNCHANGED <<scene, width, height, max_depth, x, y, im,
                   queryVars, auxVars>>

\* trace_ray: scene.intersect(ray) finds no surface
TraceMiss ==
    /\ pc = "trace"
    /\ Top.pc = "enter"
    /\ ~SceneIntersect(scene, Top.ray).hit.some
    /\ stack' = SetTop([Top EXCEPT !.pc = "ret"])
    /\ UNCHANGED <<scene, width, height, max_depth, x, y, im, pc,
                   queryVars, auxVars>>

\* trace_ray: scene.intersect(ray) finds a surface; the ambient term
TraceHit ==
    /\ pc = "trace"
    /\ Top.pc = "enter"
    /\ LET res == SceneIntersect(scene, Top.ray)
       IN  /\ res.hit.some
           /\ stack' = SetTop([Top EXCEPT
                  !.pc = "lights",
                  !.obj = res.obj,
                  !.hit = res.hit,
                  !.color = AmbientTerm(scene,
                                        scene.objects[res.obj].material)])
    /\ UNCHANGED <<scene, width, height, max_depth, x, y, im, pc,
                   queryVars, auxVars>>

\* TraceLight draining the lights of the scene
TraceLightDrain ==
    /\ pc = "trace"
    /\ Top.pc = "lights"
    /\ Top.li <= Len(scene.lights)
    /\ LET light == scene.lights[Top.li]
           m == scene.objects[Top.obj].material
           color == ShadeLight(scene, light, m, Top.ray, Top.hit, Top.color)
       IN  /\ stack' = SetTop([Top EXCEPT !.color = color,
                                          !.nadd = Append(@, 1)])
           /\ scene' = [scene EXCEPT !.lights = Tail(@)]
    /\ UNCHANGED <<width, height, max_depth, x, y, im, pc, queryVars, auxVars>>

\* trace_ray: one iteration of the loop over the lights
TraceLight ==
    /\ pc = "trace"
    /\ Top.pc = "lights"
    /\ Top.li <= Len(scene.lights)
    /\ LET light == scene.lights[Top.li]
           m == scene.objects[Top.obj].material
           color == ShadeLight(scene, light, m, Top.ray, Top.hit, Top.color)
           added == IF LightVisible(
                           SceneIntersect(scene, ShadowRay(light, Top.hit)),
                           LightDist(light, Top.hit))
                    THEN 1 ELSE 0
       IN  stack' = SetTop([Top EXCEPT
               !.color = color,
               !.li = @ + 1,
               !.nadd = Append(@, added)])
    /\ UNCHANGED <<scene, width, height, max_depth, x, y, im, pc,
                   queryVars, auxVars>>

\* trace_ray: `if depth >= max_depth { return color; }`
TraceDepthLimit ==
    /\ pc = "trace"
    /\ Top.pc = "lights"
    /\ Top.li > Len(scene.lights)
    /\ AtDepthLimit(Top.depth, max_depth)
    /\ stack' = SetTop([Top EXCEPT !.pc = "ret"])
    /\ UNCHANGED <<scene, width, height, max_depth, x, y, im, pc,
                   queryVars, auxVars>>

\* trace_ray: the material does not reflect
TraceNoReflect ==
    /\ pc = "trace"
    /\ Top.pc = "lights"
    /\ Top.li > Len(scene.lights)
    /\ ~AtDepthLimit(Top.depth, max_depth)
    /\ ~IsReflective(scene.objects[Top.obj].material)
    /\ stack' = SetTop([Top EXCEPT !.pc = "ret"])
    /\ UNCHANGED <<scene, width, height, max_depth, x, y, im, pc,
                   queryVars, auxVars>>

\* trace_ray: the recursive call for the reflected ray.  The bound on the
\* length of the stack keeps the state space finite; a call at depth d runs
\* on a stack of d + 1 <= max_depth + 1 frames, so the bound never disables
\* the call.
TraceReflect ==
    /\ pc = "trace"
    /\ Top.pc = "lights"
    /\ Top.li > Len(scene.lights)
    /\ ~AtDepthLimit(Top.depth, max_depth)
    /\ IsReflective(scene.objects[Top.obj].material)
    /\ Len(stack) < MaxDepthBound + 3
    /\ stack' = Append(SetTop([Top EXCEPT !.pc = "wait", !.ncalls = @ + 1]),
                       NewFrame(ReflectedRay(Top.ray, Top.hit),
                                ChildDepth(Top.depth)))
    /\ UNCHANGED <<scene, width, height, max_depth, x, y, im, pc,
                   queryVars, auxVars>>

\* the return of a recursive call: color + reflected_color * reflectivity
TraceReturn ==
    /\ pc = "trace"
    /\ Len(stack) >= 2
    /\ Top.pc = "ret"
    /\ LET caller == stack[Len(stack) - 1]
           m == scene.objects[caller.obj].material
       IN  stack' = Append(SubSeq(stack, 1, Len(stack) - 2),
                           [caller EXCEPT
                               !.pc = "ret",
                               !.color = VAdd(@, VScale(Top.color,
                                                        Reflectivity(m)))])
    /\ UNCHANGED <<scene, width, height, max_depth, x, y, im, pc,
                   queryVars, auxVars>>

\* the rest of the body of the pixel loop: clamp, put_pixel, next pixel
WritePixel ==
    /\ pc = "trace"
    /\ Len(stack) = 1
    /\ Top.pc = "ret"
    /\ im' = [im EXCEPT ![<<x, y>>] = ToRgb(Top.color)]
    /\ stack' = <<>>
    /\ pc' = "loop"
    /\ IF y + 1 < height
       THEN /\ y' = y + 1
            /\ x' = x
       ELSE /\ y' = 0
            /\ x' = x + 1
    /\ UNCHANGED <<scene, width, height, max_depth, queryVars, auxVars>>

\* the end of the loops: ray_trace returns the raster
Finish ==
    /\ pc = "loop"
    /\ x >= width
    /\ pc' = "done"
    /\ UNCHANGED <<scene, width, height, max_depth, x, y, im, stack,
                   queryVars, auxVars>>

Next ==
    \/ StartPixel
    \/ TraceMiss
    \/ TraceHit
    \/ TraceLight
    \/ TraceDepthLimit
    \/ TraceNoReflect
    \/ TraceReflect
    \/ TraceReturn
    \/ WritePixel
    \/ Finish

Spec == Init /\ [][Next]_vars

\* the render runs to its end: a sequential program takes its next step
LiveSpec == Init /\ [][Next]_vars /\ WF_vars(Next)

\* ------------------------------------------------------------------------
\* Intersection queries: Scene::intersect over arbitrary rays
\* ------------------------------------------------------------------------
UnitSphere == SphereNew(V(0, 0, 0), One, MatteMaterial(Red))

UnitSphereMirror == SphereNew(V(0, 0, 0), One, MirrorMaterial(Blue))

FarSphere == SphereNew(V(0, 0, 2), One, MatteMaterial(Blue))

SmallSphere == SphereNew(V(1, 0, 0), One \div 2, MatteMaterial(White))

FrontPlane == PlaneNew(V(0, 0, 1), V(0, 0, -1), MatteMaterial(White))

BackPlane == PlaneNew(V(0, 0, -1), V(0, 0, 1), MirrorMaterial(White))

GroundPlane == PlaneNew(V(0, 0, 0), V(0, 1, 0), CheckerMaterial(White))

TiltedPlane == PlaneNew(V(0, 0, 0), Vec3(600, 0, 800), MatteMaterial(Red))

BumpyMaterial(c) ==
    WithNormalMap(MatteMaterial(c), NormalMapNew(1, 2, One, One \div 2, 2 * One))

BumpySphere == SphereNew(V(0, 0, 0), One, BumpyMaterial(Red))

BumpyPlane == PlaneNew(V(0, 0, 1), V(0, 0, -1), BumpyMaterial(White))

\* the surface lists of the queries
QObjectLists ==
    {<<UnitSphere>>, <<FrontPlane>>, <<GroundPlane>>, <<TiltedPlane>>,
     <<BumpySphere>>, <<BumpyPlane>>,
     <<FrontPlane, FarSphere>>, <<UnitSphereMirror, UnitSphere>>,
     <<FarSphere, BackPlane, SmallSphere>>}

QDirs ==
    {V(0, 0, 1), V(0, 0, -1), V(1, 0, 0), V(-1, 0, 0), V(0, 1, 0),
     V(1, 0, 1), V(1, 1, 1)}

\* the rays of the queries: an origin of the grid and a direction
QRays ==
    {RayNew(V(a, b, c), d) :
        a \in -GridMax .. GridMax, b \in -GridMax .. GridMax,
        c \in -GridMax .. GridMax, d \in QDirs}

RenderIdle ==
    /\ scene = SceneSphere
    /\ width = 1
    /\ height = 1
    /\ max_depth = 0
    /\ x = 0
    /\ y = 0
    /\ im = NewImage(1, 1)
    /\ stack = <<>>
    /\ pc = "idle"

QInit ==
    /\ RenderIdle
    /\ q_objects \in QObjectLists
    /\ q_ray \in QRays
    /\ q_i = 1
    /\ q_hits = <<>>
    /\ q_result = NoResult
    /\ q_pc = "loop"
    /\ LoadIdle
    /\ TexIdle
    /\ DepthIdle

\* Scene::intersect: the iteration of the loop over a sphere
QuerySphere ==
    /\ q_pc = "loop"
    /\ q_i <= Len(q_objects)
    /\ q_objects[q_i].kind = "Sphere"
    /\ q_hits' = Append(q_hits, SphereIntersect(q_objects[q_i], q_ray))
    /\ q_result' = IntersectStep(q_objects, q_ray, q_result, q_i)
    /\ q_i' = q_i + 1
    /\ UNCHANGED <<auxVars, renderVars, q_objects, q_ray, q_pc>>

\* Scene::intersect: the iteration of the loop over a plane
QueryPlane ==
    /\ q_pc = "loop"
    /\ q_i <= Len(q_objects)
    /\ q_objects[q_i].kind = "Plane"
    /\ q_hits' = Append(q_hits, PlaneIntersect(q_objects[q_i], q_ray))
    /\ q_result' = IntersectStep(q_objects, q_ray, q_result, q_i)
    /\ q_i' = q_i + 1
    /\ UNCHANGED <<auxVars, renderVars, q_objects, q_ray, q_pc>>

\* Scene::intersect: the end of the loop, `result` is returned
QueryReturn ==
    /\ q_pc = "loop"
    /\ q_i > Len(q_objects)
    /\ q_pc' = "done"
    /\ UNCHANGED <<auxVars, renderVars, q_objects, q_ray, q_i,
                   q_hits, q_result>>

QNext ==
    \/ QuerySphere
    \/ QueryPlane
    \/ QueryReturn

QuerySpec == QInit /\ [][QNext]_vars

\* ------------------------------------------------------------------------
\* Properties of the intersection queries
\* ------------------------------------------------------------------------
\* the surfaces of the finished query that report a hit
QHitters == {i \in 1 .. Len(q_hits) : q_hits[i].some}

\* C4: Scene.intersect returns None iff no surface reports a hit; otherwise
\* it returns the surface and the hit of minimal dist, and among several
\* surfaces of that minimal dist the first one of the surface list.
C4_NearestFirst ==
    q_pc = "done" =>
        /\ q_result.hit.some <=> QHitters # {}
        /\ q_result.hit.some =>
              /\ q_result.obj \in QHitters
              /\ q_result.hit = q_hits[q_result.obj]
              /\ \A i \in QHitters : q_hits[i].dist >= q_result.hit.dist
              /\ \A i \in QHitters :
                    q_hits[i].dist = q_result.hit.dist => i >= q_result.obj

\* a finished query where two surfaces report the same minimal distance and
\* the first of them is returned
C4_Witness ==
    /\ q_pc = "done"
    /\ q_result.hit.some
    /\ \E i \in QHitters :
          /\ i > q_result.obj
          /\ q_hits[i].dist = q_result.hit.dist
          /\ q_objects[i].material # q_objects[q_result.obj].material

\* C5: Sphere.intersect returns no hit for a negative discriminant;
\* otherwise, with d2 <= d1 the two roots, a hit of dist d2 if d2 > 0, else
\* a hit of dist d1 if d1 > 0, else no hit.
C5_SphereRoots ==
    \A i \in 1 .. Len(q_hits) :
        q_objects[i].kind = "Sphere" =>
            LET s == q_objects[i]
                h == q_hits[i]
            IN  IF SphereDiscriminant(s, q_ray) < 0
                THEN ~h.some
                ELSE /\ SphereD2(s, q_ray) <= SphereD1(s, q_ray)
                     /\ IF SphereD2(s, q_ray) > 0
                        THEN h.some /\ h.dist = SphereD2(s, q_ray)
                        ELSE IF SphereD1(s, q_ray) > 0
                             THEN h.some /\ h.dist = SphereD1(s, q_ray)
                             ELSE ~h.some

\* a query from inside a sphere: the smaller root is negative and the hit is
\* at the larger root
C5_Witness ==
    \E i \in 1 .. Len(q_hits) :
        /\ q_objects[i].kind = "Sphere"
        /\ SphereDiscriminant(q_objects[i], q_ray) > 0
        /\ SphereD2(q_objects[i], q_ray) < 0
        /\ SphereD1(q_objects[i], q_ray) > 0
        /\ q_hits[i].some
        /\ q_hits[i].dist = SphereD1(q_objects[i], q_ray)

\* C6: every Intersection returned by Sphere.intersect or Plane.intersect,
\* and every hit returned by Scene.intersect, has dist > 0.
C6_DistPositive ==
    /\ \A i \in 1 .. Len(q_hits) : q_hits[i].some => q_hits[i].dist > 0
    /\ q_result.hit.some => q_result.hit.dist > 0

\* a query whose ray starts on a sphere and leaves it: the surface point at
\* the ray parameter 0 is not reported
C6_Witness ==
    \E i \in 1 .. Len(q_hits) :
        /\ q_objects[i].kind = "Sphere"
        /\ SphereDiscriminant(q_objects[i], q_ray) >= 0
        /\ SphereD1(q_objects[i], q_ray) = 0
        /\ ~q_hits[i].some

\* C7: Plane.intersect returns a hit iff denom = dot(ray.dir, normal) is not
\* 0 and d = dot(normal, point - ray.origin) / denom is > 0.
C7_PlaneHitIff ==
    \A i \in 1 .. Len(q_hits) :
        q_objects[i].kind = "Plane" =>
            (q_hits[i].some <=>
                /\ PlaneDenom(q_objects[i], q_ray) # 0
                /\ PlaneD(q_objects[i], q_ray) > 0)

\* a query whose ray is parallel to a plane and starts in it: no hit
C7_Witness ==
    \E i \in 1 .. Len(q_hits) :
        /\ q_objects[i].kind = "Plane"
        /\ PlaneDenom(q_objects[i], q_ray) = 0
        /\ Dot(q_objects[i].normal,
               VSub(q_objects[i].point, q_ray.origin)) = 0
        /\ ~q_hits[i].some

\* ------------------------------------------------------------------------
\* Properties of the renderer
\* ------------------------------------------------------------------------
Frames == 1 .. Len(stack)

\* the material hit by frame k, for a frame with a hit
FrameMaterial(k) == scene.objects[stack[k].obj].material

\* C1: trace_ray makes a recursive call iff the ray hits a surface,
\* depth < max_depth and the reflectivity of the hit material is > 0; it
\* never recurses at depth = max_depth, and a recursion is one call with
\* depth + 1.
C1_RecursesIff ==
    \A k \in Frames :
        LET f == stack[k]
            recurses == /\ f.hit.some
                        /\ f.depth < max_depth
                        /\ FrameMaterial(k).reflectivity > 0
        IN  /\ f.pc \in {"wait", "ret"} =>
                f.ncalls = (IF recurses THEN 1 ELSE 0)
            /\ f.pc \notin {"wait", "ret"} => f.ncalls = 0
            /\ f.depth = max_depth => f.ncalls = 0
            /\ f.pc = "wait" =>
                /\ k < Len(stack)
                /\ stack[k + 1].depth = f.depth + 1
            /\ k < Len(stack) => f.pc = "wait"

\* a call at the depth limit that hit a reflecting surface and returns
\* without a recursive call, below a caller that did recurse
C1_Witness ==
    /\ Len(stack) >= 2
    /\ Top.pc = "ret"
    /\ Top.hit.some
    /\ Top.depth = max_depth
    /\ FrameMaterial(Len(stack)).reflectivity > 0
    /\ Top.ncalls = 0
    /\ stack[Len(stack) - 1].ncalls = 1

\* C2: ray_trace terminates and returns the raster, also when every
\* surface reflects and every reflected ray hits again.
C2_Terminates == <>(pc = "done")

\* the raster is returned for the scene of the two facing mirrors, with a
\* positive depth limit
C2_Witness ==
    /\ pc = "done"
    /\ scene = SceneMirrors
    /\ max_depth > 0
    /\ x = width

\* the claim's visibility of light i from the hit of frame f: no hit of the
\* shadow ray, or a hit farther than the light
ClaimVisible(f, i) ==
    LET L == scene.lights[i]
        pos == VAdd(f.hit.pos, VScale(f.hit.normal, SqrtEpsilon))
        shadow_ray == RayNew(pos, VSub(L.pos, pos))
        r == SceneIntersect(scene, shadow_ray)
    IN  \/ ~r.hit.some
        \/ r.hit.dist > Norm(VSub(L.pos, pos))

\* the claim's term of light i for frame k
ClaimTerm(k, i) ==
    LET f == stack[k]
        L == scene.lights[i]
        pos == VAdd(f.hit.pos, VScale(f.hit.normal, SqrtEpsilon))
        shadow_ray == RayNew(pos, VSub(L.pos, pos))
    IN  ComponentMul(MaterialColor(FrameMaterial(k), shadow_ray, f.ray, f.hit),
                     VScale(VDivS(L.color, 255 * One), L.intensity))

RECURSIVE ClaimLightSum(_, _)
\* the ambient term of frame k plus the terms of the visible lights 1 .. n
ClaimLightSum(k, n) ==
    IF n = 0
    THEN AmbientTerm(scene, FrameMaterial(k))
    ELSE IF ClaimVisible(stack[k], n)
         THEN VAdd(ClaimLightSum(k, n - 1), ClaimTerm(k, n))
         ELSE ClaimLightSum(k, n - 1)

\* C3: for a hit and each light, the light's term is added to the color
\* exactly once if the shadow ray hits nothing or hits at a dist strictly
\* greater than the distance to the light, and is not added otherwise.
C3_LightTermOnce ==
    \A k \in Frames :
        LET f == stack[k]
        IN  f.hit.some =>
                /\ Len(f.nadd) = f.li - 1
                /\ \A i \in 1 .. Len(f.nadd) :
                      f.nadd[i] = (IF ClaimVisible(f, i) THEN 1 ELSE 0)
                /\ f.pc = "lights" => f.color = ClaimLightSum(k, f.li - 1)

\* a hit whose lights are all processed: one light at the distance of its
\* occluder (blocked), one light nearer than its occluder (added) and one
\* light behind an occluder (blocked)
C3_Witness ==
    /\ stack # <<>>
    /\ Top.pc = "lights"
    /\ Top.li > Len(scene.lights)
    /\ \E i, j, n \in 1 .. Len(scene.lights) :
          LET ri == SceneIntersect(scene, ShadowRay(scene.lights[i], Top.hit))
              rj == SceneIntersect(scene, ShadowRay(scene.lights[j], Top.hit))
              rn == SceneIntersect(scene, ShadowRay(scene.lights[n], Top.hit))
          IN  /\ ri.hit.some
              /\ ri.hit.dist = LightDist(scene.lights[i], Top.hit)
              /\ Top.nadd[i] = 0
              /\ rj.hit.some
              /\ rj.hit.dist > LightDist(scene.lights[j], Top.hit)
              /\ Top.nadd[j] = 1
              /\ rn.hit.some
              /\ rn.hit.dist < LightDist(scene.lights[n], Top.hit)
              /\ Top.nadd[n] = 0
              /\ LightTerm(scene.lights[j], FrameMaterial(Len(stack)),
                           Top.ray, Top.hit) # Zero

\* C8: a ray that hits a material of reflectivity 0 in a scene without
\* lights yields the ambient term raw_color * (ambient_color/255 *
\* ambient_coeff), at every depth; a ray that hits nothing yields (0,0,0).
C8_AmbientOnly ==
    \A k \in Frames :
        LET f == stack[k]
        IN  f.pc = "ret" =>
              /\ ~f.hit.some => f.color = Vec3(0, 0, 0)
              /\ (/\ f.hit.some
                  /\ FrameMaterial(k).reflectivity = 0
                  /\ scene.lights = <<>>) =>
                    f.color =
                        ComponentMul(FrameMaterial(k).color,
                            VScale(VDivS(scene.ambient_color, 255 * One),
                                   scene.ambient_coeff))

\* a reflected ray (depth 1) that hits a matte surface in a scene without
\* lights and returns a color that is not black
C8_Witness ==
    /\ Len(stack) = 2
    /\ Top.pc = "ret"
    /\ Top.hit.some
    /\ Top.depth = 1
    /\ FrameMaterial(2).reflectivity = 0
    /\ scene.lights = <<>>
    /\ Top.color # Zero

\* the pixels written so far by the loops of ray_trace
Written == {p \in DOMAIN im : p[1] < x \/ (p[1] = x /\ p[2] < y)}

\* C9: the value written at pixel (x, y) is a function of (scene, x, y,
\* width, height, max_depth) only.
C9_PixelFunction ==
    \A p \in Written :
        im[p] = ToRgb(TraceRayFn(scene,
                                 GetRay(scene.camera, p[1], p[2], width,
                                        height),
                                 0, max_depth))

\* a finished raster of several pixels that are not all equal
C9_Witness ==
    /\ pc = "done"
    /\ Written = DOMAIN im
    /\ \E p, q \in DOMAIN im : im[p] # im[q]

\* C10: no step of ray_trace, of Scene.intersect or of a nested trace_ray
\* changes the scene.
C10_SceneUnchanged == [][scene' = scene]_vars

\* the end of a render with nested trace_ray calls and shadow queries that
\* left a pixel that is not black
C10_Witness ==
    /\ pc = "done"
    /\ scene.lights # <<>>
    /\ max_depth > 0
    /\ \E k \in 1 .. Len(scene.objects) : scene.objects[k].material.reflectivity > 0
    /\ \E p \in DOMAIN im : im[p] # <<0, 0, 0>>

\* ------------------------------------------------------------------------
\* Scene construction: the textures of the materials (main.rs, texture.rs)
\* ------------------------------------------------------------------------
MaxMaterials == 3

\* an image file on disk: whether it can be read, whether its bytes decode,
\* and the pixel format and the size of the decoded image
ImageFile(readable, decodable, format, w, h) ==
    [readable |-> readable, decodable |-> decodable, format |-> format,
     width |-> w, height |-> h]

NoFile == ImageFile(FALSE, FALSE, "", 0, 0)

MissingFile == ImageFile(FALSE, FALSE, "", 0, 0)

CorruptFile == ImageFile(TRUE, FALSE, "", 0, 0)

RgbaFile == ImageFile(TRUE, TRUE, "Rgba8", 2, 2)

LumaFile == ImageFile(TRUE, TRUE, "Luma8", 2, 2)

RgbFile == ImageFile(TRUE, TRUE, "Rgb8", 3, 2)

\* image::open: Ok with the decoded image, or Err
ImageOpen(file) ==
    IF file.readable /\ file.decodable
    THEN [ok |-> TRUE, format |-> file.format,
          width |-> file.width, height |-> file.height]
    ELSE [ok |-> FALSE, format |-> "", width |-> 0, height |-> 0]

\* the struct ImageTexture: an RGB raster of the given size
ImageTexture(w, h) == [kind |-> "Image", width |-> w, height |-> h]

\* a call that returns `value`
Returned(value) == [outcome |-> "return", value |-> value]

\* a call that panics: nothing is returned, the thread unwinds
Panicked(msg) == [outcome |-> "panic", value |-> msg]

\* ImageTexture::new that converts an image of another format
ImageTextureNewAnyFormat(file) ==
    LET image == ImageOpen(file)
    IN  IF ~image.ok
        THEN Panicked("unwrap on an Err value")
        ELSE Returned(ImageTexture(image.width, image.height))

\* ImageTexture::new: the result of image::open is unwrapped, and an image
\* that is not ImageRgb8 panics
ImageTextureNew(file) ==
    LET image == ImageOpen(file)
    IN  IF ~image.ok
        THEN Panicked("unwrap on an Err value")
        ELSE IF image.format = "Rgb8"
             THEN Returned(ImageTexture(image.width, image.height))
             ELSE Panicked("Only RGB textures are supported")

\* the keys of a material of the scene file that select its texture
MaterialEntry(key, dim, file) == [key |-> key, dim |-> dim, file |-> file]

MaterialEntries ==
    {MaterialEntry("none", 0, NoFile),
     MaterialEntry("checkerboard", One, NoFile)}
    \cup {MaterialEntry("texture", 0, f) :
            f \in {MissingFile, CorruptFile, RgbaFile, LumaFile, RgbFile}}

\* decode_material: the expression that builds `texture`
DecodeTexture(entry) ==
    IF entry.key = "checkerboard"
    THEN Returned(CheckerboardTexture(entry.dim))
    ELSE IF entry.key = "texture"
         THEN ImageTextureNew(entry.file)
         ELSE Returned(NoTexture)

LInit ==
    /\ RenderIdle
    /\ QueryIdle
    /\ TexIdle
    /\ DepthIdle
    /\ l_materials \in UNION {[1 .. n -> MaterialEntries] :
                                n \in 1 .. MaxMaterials}
    /\ l_i = 1
    /\ l_textures = <<>>
    /\ l_pc = "decode"

\* decode_materials: an iteration of the loop whose decode_material returns
DecodeMaterial ==
    /\ l_pc = "decode"
    /\ l_i <= Len(l_materials)
    /\ LET r == DecodeTexture(l_materials[l_i])
       IN  /\ r.outcome = "return"
           /\ l_textures' = Append(l_textures, r.value)
    /\ l_i' = l_i + 1
    /\ UNCHANGED <<renderVars, queryVars, texVars, depthVars,
                   l_materials, l_pc>>

\* decode_materials: an iteration whose decode_material panics; nothing
\* catches the panic, so setup_scene and main are unwound
DecodeMaterialPanic ==
    /\ l_pc = "decode"
    /\ l_i <= Len(l_materials)
    /\ DecodeTexture(l_materials[l_i]).outcome = "panic"
    /\ l_pc' = "panicked"
    /\ UNCHANGED <<renderVars, queryVars, texVars, depthVars,
                   l_materials, l_i, l_textures>>

\* main: setup_scene has returned the scene and ray_trace is called
MainRayTrace ==
    /\ l_pc = "decode"
    /\ l_i > Len(l_materials)
    /\ l_pc' = "render"
    /\ UNCHANGED <<renderVars, queryVars, texVars, depthVars,
                   l_materials, l_i, l_textures>>

LNext ==
    \/ DecodeMaterial
    \/ DecodeMaterialPanic
    \/ MainRayTrace

LoadSpec == LInit /\ [][LNext]_vars

\* ------------------------------------------------------------------------
\* Properties of the scene construction
\* ------------------------------------------------------------------------
\* the material names an image file that cannot be read or decoded, or that
\* is not an RGB image
BadImage(entry) ==
    /\ entry.key = "texture"
    /\ \/ ~entry.file.readable
       \/ ~entry.file.decodable
       \/ entry.file.format # "Rgb8"

\* the materials whose texture has been asked for
Decoded ==
    {i \in 1 .. Len(l_materials) :
        i < l_i \/ (i = l_i /\ l_pc = "panicked")}

TexMax == 1

MaxShift == 1

MaxImage == 3

\* `f as u32` of a float: the fraction is dropped and a negative value
\* saturates to 0
AsU32(f) == IF f < 0 THEN 0 ELSE f \div One

\* the pixel that lies outside of the raster: get_pixel panics
NoPixel == V(-1, -1, -1)

\* RgbImage::get_pixel on a raster whose pixels differ from each other
ImageGetPixel(t, px, py) ==
    IF px < t.width /\ py < t.height
    THEN V(40 * px + 1, 40 * py + 2, 3)
    ELSE NoPixel

\* the column and the row that ImageTexture::color samples
ImageSampleX(t, u) == AsU32(FMul(FRem(u, One), (t.width - 1) * One))

ImageSampleY(t, v) == AsU32(FMul(FRem(v, One), (t.height - 1) * One))

\* ImageTexture::color
ImageTextureColor(t, u, v) ==
    ImageGetPixel(t, ImageSampleX(t, u), ImageSampleY(t, v))

\* the textures of the lookups
LookupTextures ==
    {CheckerboardTexture(One), CheckerboardTexture(2 * One)}
    \cup {ImageTexture(w, h) : w \in 1 .. MaxImage, h \in 1 .. MaxImage}

\* the texture coordinates of the lookups: the quarters of -TexMax .. TexMax
TexCoords == {i * (One \div 4) : i \in -4 * TexMax .. 4 * TexMax}

\* the period of the texture in u and in v
TexPeriod(t) == IF t.kind = "Checkerboard" THEN t.dim ELSE One

\* the arguments of the n-th lookup: (u, v), then (u, v) moved by whole
\* periods
TexArg(n) ==
    IF n = 1
    THEN <<t_in.u, t_in.v>>
    ELSE <<t_in.u + t_in.k * TexPeriod(t_in.tex),
           t_in.v + t_in.l * TexPeriod(t_in.tex)>>

TInit ==
    /\ RenderIdle
    /\ QueryIdle
    /\ LoadIdle
    /\ DepthIdle
    /\ t_in \in [tex : LookupTextures, u : TexCoords, v : TexCoords,
                 k : -MaxShift .. MaxShift, l : -MaxShift .. MaxShift]
    /\ t_out = <<>>
    /\ t_pc = "call"

\* a call of CheckerboardTexture::color
CheckerboardLookup ==
    /\ t_pc = "call"
    /\ Len(t_out) < 2
    /\ t_in.tex.kind = "Checkerboard"
    /\ LET a == TexArg(Len(t_out) + 1)
       IN  t_out' = Append(t_out, CheckerboardColor(t_in.tex, a[1], a[2]))
    /\ UNCHANGED <<renderVars, queryVars, loadVars, depthVars, t_in, t_pc>>

\* a call of ImageTexture::color
ImageLookup ==
    /\ t_pc = "call"
    /\ Len(t_out) < 2
    /\ t_in.tex.kind = "Image"
    /\ LET a == TexArg(Len(t_out) + 1)
       IN  t_out' = Append(t_out, ImageTextureColor(t_in.tex, a[1], a[2]))
    /\ UNCHANGED <<renderVars, queryVars, loadVars, depthVars, t_in, t_pc>>

\* both colours have been returned
LookupsDone ==
    /\ t_pc = "call"
    /\ Len(t_out) = 2
    /\ t_pc' = "done"
    /\ UNCHANGED <<renderVars, queryVars, loadVars, depthVars, t_in, t_out>>

TNext ==
    \/ CheckerboardLookup
    \/ ImageLookup
    \/ LookupsDone

TexSpec == TInit /\ [][TNext]_vars

\* ------------------------------------------------------------------------
\* Properties of the textures
\* ------------------------------------------------------------------------
\* C12: the checkerboard has the period dim in u and in v: for u, v of
\* either sign and whole k, l, color(u, v) = color(u + k*dim, v + l*dim)
C12_CheckerPeriodic ==
    (t_pc = "done" /\ t_in.tex.kind = "Checkerboard") =>
        /\ t_out[1] = t_out[2]
        /\ t_out[1] \in {V(0, 0, 0), V(255, 255, 255)}

\* a black tile on the negative side of u is met again across u = 0
C12_Witness ==
    /\ t_pc = "done"
    /\ t_in.tex = CheckerboardTexture(One)
    /\ t_in.u = -(One \div 4)
    /\ t_in.v = One \div 4
    /\ t_in.k = 1
    /\ t_in.l = -1
    /\ t_out = <<V(0, 0, 0), V(0, 0, 0)>>

\* ------------------------------------------------------------------------
\* Properties of the colour range
\* ------------------------------------------------------------------------
\* the 8-bit value the claim gives for the channel c
ClaimChannel(c) ==
    IF c <= 0 THEN 0 ELSE IF c >= 255 * One THEN 255 ELSE c \div One

\* the unclamped colour that trace_ray returns for the pixel p
PixelColor(p) ==
    TraceRayFn(scene, GetRay(scene.camera, p[1], p[2], width, height),
               0, max_depth)

\* C13: the colours stay unclamped through trace_ray: a light's term and
\* the reflected colour times the reflectivity are added as they are, also
\* above 255; only the pixel write clamps each channel to [0, 255] and
\* truncates it: 0 for c <= 0, 255 for c >= 255, else the integer part of c
C13_ClampAtWrite ==
    [][/\ (pc = "trace" /\ pc' = "loop") =>
              im' = [im EXCEPT ![<<x, y>>] = <<ClaimChannel(Top.color.x),
                                               ClaimChannel(Top.color.y),
                                               ClaimChannel(Top.color.z)>>]
       /\ pc' = "trace" => im' = im
       /\ (pc = "trace" /\ Len(stack') = Len(stack) - 1 /\ stack' # <<>>) =>
              LET caller == stack[Len(stack) - 1]
                  m == scene.objects[caller.obj].material
              IN  stack'[Len(stack')].color =
                      VAdd(caller.color, VScale(Top.color, m.reflectivity))
       /\ (pc = "trace" /\ Len(stack') = Len(stack)
             /\ Top.pc = "lights" /\ stack'[Len(stack)].li = Top.li + 1) =>
              stack'[Len(stack)].color \in
                  {Top.color, VAdd(Top.color, ClaimTerm(Len(stack), Top.li))}
      ]_vars

\* a written pixel with a channel above 255 that was written as 255, and a
\* written channel with a fraction that was dropped
C13_Witness ==
    /\ \E p \in Written :
          /\ PixelColor(p).x > 255 * One
          /\ im[p][1] = 255
    /\ \E p \in Written :
          LET c == PixelColor(p).z
          IN  /\ c > 0
              /\ c < 255 * One
              /\ c % One >= One \div 2
              /\ im[p][3] = c \div One

\* ------------------------------------------------------------------------
\* Properties of the normal of a hit
\* ------------------------------------------------------------------------
\* the geometric normal of the surface at pos
GeometricNormal(obj, pos) ==
    IF obj.kind = "Sphere" THEN Normalize(VSub(pos, obj.pos)) ELSE obj.normal

\* C14: the normal of the Intersection that intersect returns is
\* Material.apply_normal_map of the geometric normal at the hit position
\* (for a plane: of its fixed normal), which without a normal map is the
\* geometric normal itself
C14_NormalMapApplied ==
    \A i \in QHitters :
        q_hits[i].normal =
            ApplyNormalMap(q_objects[i].material,
                           GeometricNormal(q_objects[i], q_hits[i].pos),
                           q_hits[i].pos)

\* ------------------------------------------------------------------------
\* Properties of the image texture
\* ------------------------------------------------------------------------
\* the claim's wrap of a coordinate into [0, 1)
Wrap01(u) == u % One

\* C15: ImageTexture.color wraps u and v into [0, 1) by modulo 1, also when
\* they are negative, so that color(u, v) = color(u + k, v + l) for whole
\* k, l; it scales the wrapped values by (width - 1, height - 1) and samples
\* the pixel at the truncated coordinates, which lie inside of the raster
C15_ImageWraps ==
    (t_pc = "done" /\ t_in.tex.kind = "Image") =>
        LET t == t_in.tex
            px == FMul(Wrap01(t_in.u), (t.width - 1) * One) \div One
            py == FMul(Wrap01(t_in.v), (t.height - 1) * One) \div One
        IN  /\ px \in 0 .. t.width - 1
            /\ py \in 0 .. t.height - 1
            /\ t_out[1] = ImageGetPixel(t, px, py)
            /\ t_out[1] = t_out[2]

\* ------------------------------------------------------------------------
\* The depth of the recursion of trace_ray for one primary ray (lib.rs)
\* ------------------------------------------------------------------------
\* what the chain of rays of one primary ray meets: `mirrors` reflective
\* surfaces one after the other, and then nothing ("miss") or a surface
\* that does not reflect ("matte")
Chain(mirrors, last) == [mirrors |-> mirrors, last |-> last]

\* short chains, and two mirrors facing each other
Chains ==
    {Chain(n, l) : n \in 0 .. MaxDepthBound + 1, l \in {"miss", "matte"}}
    \cup {Chain(U16Max + 1, "miss")}

\* the ray of the innermost invocation hits a reflective surface
ChainReflects == d_active <= d_chain.mirrors

DInit ==
    /\ RenderIdle
    /\ QueryIdle
    /\ LoadIdle
    /\ TexIdle
    /\ d_max \in (0 .. MaxDepthBound) \cup {U16Max}
    /\ d_chain \in Chains
    /\ d_depth = 0
    /\ d_calls = 0
    /\ d_active = 0
    /\ d_overflow = FALSE
    /\ d_pc = "start"

\* ray_trace: trace_ray(&scene, &ray, 0, max_depth)
DepthStart ==
    /\ d_pc = "start"
    /\ d_depth' = 0
    /\ d_calls' = 1
    /\ d_active' = 1
    /\ d_pc' = "enter"
    /\ UNCHANGED <<renderVars, queryVars, loadVars, texVars,
                   d_max, d_chain, d_overflow>>

\* trace_ray: scene.intersect(ray) finds no surface
DepthMiss ==
    /\ d_pc = "enter"
    /\ ~ChainReflects
    /\ d_chain.last = "miss"
    /\ d_pc' = "ret"
    /\ UNCHANGED <<renderVars, queryVars, loadVars, texVars,
                   d_max, d_chain, d_depth, d_calls, d_active, d_overflow>>

\* trace_ray: `if depth >= max_depth { return color; }` after a hit
DepthLimit ==
    /\ d_pc = "enter"
    /\ ChainReflects \/ d_chain.last = "matte"
    /\ AtDepthLimit(d_depth, d_max)
    /\ d_pc' = "ret"
    /\ UNCHANGED <<renderVars, queryVars, loadVars, texVars,
                   d_max, d_chain, d_depth, d_calls, d_active, d_overflow>>

\* trace_ray: a hit below the limit on a material that does not reflect
DepthNoReflect ==
    /\ d_pc = "enter"
    /\ ~ChainReflects
    /\ d_chain.last = "matte"
    /\ ~AtDepthLimit(d_depth, d_max)
    /\ d_pc' = "ret"
    /\ UNCHANGED <<renderVars, queryVars, loadVars, texVars,
                   d_max, d_chain, d_depth, d_calls, d_active, d_overflow>>

\* trace_ray: a hit below the limit on a reflective material: the call
\* trace_ray(scene, &reflected_ray, depth + 1, max_depth)
DepthReflect ==
    /\ d_pc = "enter"
    /\ ChainReflects
    /\ ~AtDepthLimit(d_depth, d_max)
    /\ d_depth' = ChildDepth(d_depth)
    /\ d_overflow' = (d_overflow \/ d_depth + 1 > U16Max)
    /\ d_calls' = d_calls + 1
    /\ d_active' = d_active + 1
    /\ UNCHANGED <<renderVars, queryVars, loadVars, texVars,
                   d_max, d_chain, d_pc>>

\* the return of a recursive call into its caller, which returns in turn
DepthReturn ==
    /\ d_pc = "ret"
    /\ d_active > 1
    /\ d_depth' = (d_depth - 1) % (U16Max + 1)
    /\ d_active' = d_active - 1
    /\ UNCHANGED <<renderVars, queryVars, loadVars, texVars,
                   d_max, d_chain, d_calls, d_overflow, d_pc>>

\* the return of the outermost call into ray_trace
DepthDone ==
    /\ d_pc = "ret"
    /\ d_active = 1
    /\ d_active' = 0
    /\ d_pc' = "done"
    /\ UNCHANGED <<renderVars, queryVars, loadVars, texVars,
                   d_max, d_chain, d_depth, d_calls, d_overflow>>

DNext ==
    \/ DepthStart
    \/ DepthMiss
    \/ DepthLimit
    \/ DepthNoReflect
    \/ DepthReflect
    \/ DepthReturn
    \/ DepthDone

DepthSpec == DInit /\ [][DNext]_vars

\* ------------------------------------------------------------------------
\* Properties of the depth
\* ------------------------------------------------------------------------
\* C16: in every trace_ray invocation that ray_trace causes the depth is in
\* 0 .. max_depth; one primary ray causes at most max_depth + 1
\* invocations; the u16 computation depth + 1 never overflows, also for
\* max_depth = 65535
C16_DepthBounded ==
    /\ d_depth \in 0 .. d_max
    /\ d_calls <= d_max + 1
    /\ ~d_overflow
    /\ d_active > 0 => d_depth = d_active - 1

\* the innermost call of a hall of mirrors at max_depth = 65535: its depth
\* is 65535, it is the 65536th invocation and it returns at the limit
C16_Witness ==
    /\ d_max = U16Max
    /\ d_depth = U16Max
    /\ d_calls = U16Max + 1
    /\ d_pc = "ret"
    /\ d_active = d_calls

====
